---- MODULE Spec2Model ----
(***************************************************************************)
(* Multiplayer snake server (src/unnamed/part_001): the world gameState    *)
(* (players, food, gameInterval), the WebSocket handlers (connection,      *)
(* message, close), and the timer callback (updateGame followed by         *)
(* broadcastGameState).  Node runs every handler to completion, so each    *)
(* handler is one atomic action.                                           *)
(*                                                                         *)
(* Math.random is a nondeterministic choice.  generateId is taken to       *)
(* return an id that was never used before (ids are 1, 2, ... in the order *)
(* of connection, which is also the iteration order of Object.values).     *)
(* The color of a player is left out: no handler reads it.  clients is     *)
(* the set of connections whose socket is in readyState OPEN; it leaves    *)
(* OPEN (SocketClosing) before its 'close' event is delivered (Close).     *)
(* In Spec a send on an OPEN socket succeeds; SpecSendFails adds ticks in  *)
(* which every send to one open connection throws; SpecRejoin adds a       *)
(* connection made after a player has left.  outbox holds the messages     *)
(* sent by the handler that ran last, ev names that handler.               *)
(***************************************************************************)
EXTENDS Integers, Sequences, FiniteSets, TLC

\* ------------------------------------------------------------------ constants
GRID_SIZE == 25
FOOD_SCORE == 1
maxAttempts == 100
NameLimit == 15

\* ------------------------------------------------------------------ bounds
MaxConnects == 2
MaxTicks == 3
\* connections and messages together
MaxInputs == 3
\* connections made after the first MaxConnects, once a player has left
MaxRejoins == 1

Cell(x, y) == [x |-> x, y |-> y]

\* The values getRandomPosition is drawn from when a player is created, and
\* when a food candidate is drawn.
SpawnCells == {Cell(4, 5), Cell(0, 24)}
FoodCells == {Cell(6, 5), Cell(24, 24)}

\* ------------------------------------------------------------------ values
VARIABLES players, food, gameInterval, clients, outbox, nextId, ticks,
          msgs, foodAttempts, ev

vars == <<players, food, gameInterval, clients, outbox, nextId, ticks,
          msgs, foodAttempts, ev>>

\* null / undefined / any falsy value of a JSON field
Null == "null"
\* gameState.food === null
NoFood == [x |-> -1, y |-> -1]

directions == <<"up", "down", "left", "right">>
Headings == {directions[i] : i \in 1..Len(directions)}
\* a truthy direction value that is none of the four
Sideways == "sideways"

Min(a, b) == IF a < b THEN a ELSE b

\* the % of JavaScript: the result has the sign of the dividend
JsRem(a, b) == IF a >= 0 THEN a % b ELSE -((-a) % b)

\* add key id with value p to the map ps
Put(ps, id, p) == [a \in DOMAIN ps \cup {id} |-> IF a = id THEN p ELSE ps[a]]
\* delete ps[id]
Delete(ps, id) == [a \in DOMAIN ps \ {id} |-> ps[a]]

RECURSIVE Order(_)
\* Object.values / Object.keys iterate in insertion order: increasing id
Order(S) ==
  IF S = {} THEN <<>>
  ELSE LET m == CHOOSE a \in S : \A b \in S : a <= b
       IN <<m>> \o Order(S \ {m})

\* ------------------------------------------------------------------ names
Digits == <<"0", "1", "2", "3", "4", "5", "6", "7", "8", "9">>

RECURSIVE Decimal(_)
\* template literal `${n}` of a positive integer
Decimal(n) ==
  IF n < 10 THEN <<Digits[n + 1]>>
  ELSE Decimal(n \div 10) \o <<Digits[(n % 10) + 1]>>

\* a default name that forgets the + 1
DefaultNameNoIncrement(ps) ==
  <<"P", "l", "a", "y", "e", "r", " ">> \o Decimal(Cardinality(DOMAIN ps))

\* `Player ${Object.keys(gameState.players).length + 1}`
DefaultName(ps) ==
  <<"P", "l", "a", "y", "e", "r", " ">> \o Decimal(Cardinality(DOMAIN ps) + 1)

\* data.name.substring(0, 15)
Substring15(s) == SubSeq(s, 1, Min(Len(s), NameLimit))

LongName == [i \in 1..(NameLimit + 1) |-> IF i = NameLimit + 1 THEN "z" ELSE "x"]

\* ------------------------------------------------------------------ messages in
\* An inbound payload after JSON.parse: it does not parse, it parses to a
\* non-object (a number, a string, null), or it is an object with fields.
StrName(s) == [isString |-> TRUE, chars |-> s]
NotAStringName == [isString |-> FALSE, chars |-> <<>>]

ObjectMsg(t, d, n) == [kind |-> "object", type |-> t, direction |-> d, name |-> n]

Payloads ==
  {[kind |-> k, type |-> Null, direction |-> Null, name |-> NotAStringName] :
      k \in {"unparseable", "nonobject"}}
  \cup {ObjectMsg("directionChange", d, NotAStringName) :
          d \in Headings \cup {Sideways, Null}}
  \cup {ObjectMsg("setName", Null, n) : n \in {StrName(LongName), NotAStringName}}
  \cup {ObjectMsg("chat", Null, NotAStringName)}

\* ------------------------------------------------------------------ messages out
\* wss.clients.forEach(client => if OPEN then client.send(m)): one message per
\* open connection, in connection order
Fanout(cl, m) == [i \in 1..Cardinality(cl) |-> [m EXCEPT !.to = Order(cl)[i]]]

Roster(ps) ==
  [id \in DOMAIN ps |->
     [name |-> ps[id].name, score |-> ps[id].score, alive |-> ps[id].alive]]

broadcastPlayersUpdate(ps, cl) ==
  Fanout(cl, [type |-> "playersUpdate", to |-> 0, players |-> Roster(ps)])

getClientGameState(ps, f, excludePlayerId) ==
  [food |-> f,
   players |-> [id \in DOMAIN ps \ {excludePlayerId} |->
                  [snake |-> ps[id].snake, alive |-> ps[id].alive]]]

broadcastGameState(ps, f, cl) ==
  Fanout(cl, [type |-> "gameUpdate", to |-> 0,
              gameState |-> getClientGameState(ps, f, 0)])

sendToPlayer(ps, cl, playerId, m) ==
  IF playerId \in DOMAIN ps /\ playerId \in cl
  THEN <<[m EXCEPT !.to = playerId]>>
  ELSE <<>>

\* ------------------------------------------------------------------ food
\* an occupancy test that looks at the heads only
OccupiedHeadsOnly(ps, c) == \E id \in DOMAIN ps : ps[id].snake[1] = c

Occupied(ps, c) ==
  \E id \in DOMAIN ps : \E i \in 1..Len(ps[id].snake) : ps[id].snake[i] = c

\* a generateFood that never looks at the snakes
generateFoodAnywhere(ps) == {[food |-> c, attempts |-> 1] : c \in FoodCells}

\* a generateFood that only ever returns a free cell: the loop of an earlier
\* revision, which has no bound and returns nothing while every candidate is
\* occupied
generateFoodFreeOnly(ps) ==
  {[food |-> c, attempts |-> 1] : c \in {d \in FoodCells : ~Occupied(ps, d)}}

\* The results of the retry loop, as [food, attempts]: a free candidate after
\* fewer than maxAttempts draws (every earlier draw was occupied), or the
\* candidate of draw number maxAttempts whatever it is (the 99 draws before
\* it were occupied: some snake cell exists).  Attempt counts between 1 and
\* maxAttempts behave as 1.
generateFood(ps) ==
  {[food |-> c, attempts |-> 1] : c \in {d \in FoodCells : ~Occupied(ps, d)}}
  \cup {[food |-> c, attempts |-> maxAttempts] :
          c \in {d \in FoodCells : DOMAIN ps # {}}}

RECURSIVE lastAttempt(_, _)
\* the do-while of generateFood entered with attempts draws made, every draw
\* so far on an occupied cell: the number of the draw after which the loop is
\* left at the latest.  The loop goes round again after a draw on an occupied
\* cell (there is one when a player is in the world) while attempts is below
\* maxAttempts.
lastAttempt(ps, attempts) ==
  IF attempts + 1 >= maxAttempts \/ DOMAIN ps = {} THEN attempts + 1
  ELSE lastAttempt(ps, attempts + 1)

\* the results of the loop, as [food, attempts]: draw n is returned when it
\* is on a free cell or when n is maxAttempts
generateFoodLoop(ps) ==
  LET free == {c \in FoodCells : ~Occupied(ps, c)}
  IN {g \in [food : FoodCells, attempts : 1..lastAttempt(ps, 0)] :
        g.food \in free \/ g.attempts >= maxAttempts}

\* ------------------------------------------------------------------ tick
\* the heading opposite to d; a value that is no heading has none
Reverse(d) ==
  CASE d = "up" -> "down"
    [] d = "down" -> "up"
    [] d = "left" -> "right"
    [] d = "right" -> "left"
    [] OTHER -> "none"

\* a 180-degree test that forgets the horizontal pair
IsReversalVerticalOnly(currentDirection, d) ==
  \/ currentDirection = "up" /\ d = "down"
  \/ currentDirection = "down" /\ d = "up"

\* the 180-degree test of the message handler
IsReversal(currentDirection, d) ==
  \/ currentDirection = "up" /\ d = "down"
  \/ currentDirection = "down" /\ d = "up"
  \/ currentDirection = "left" /\ d = "right"
  \/ currentDirection = "right" /\ d = "left"

\* a direction commit that forgets the alive test
CommitDirectionsDead(ps) ==
  [id \in DOMAIN ps |->
     IF ps[id].pendingDirection # Null
     THEN [ps[id] EXCEPT !.direction = ps[id].pendingDirection,
                         !.pendingDirection = Null]
     ELSE ps[id]]

CommitDirections(ps) ==
  [id \in DOMAIN ps |->
     IF ps[id].pendingDirection # Null /\ ps[id].alive
     THEN [ps[id] EXCEPT !.direction = ps[id].pendingDirection,
                         !.pendingDirection = Null]
     ELSE ps[id]]

\* the switch on player.direction
Step(head, direction) ==
  CASE direction = "up" -> [head EXCEPT !.y = @ - 1]
    [] direction = "down" -> [head EXCEPT !.y = @ + 1]
    [] direction = "left" -> [head EXCEPT !.x = @ - 1]
    [] direction = "right" -> [head EXCEPT !.x = @ + 1]
    [] OTHER -> head

\* a wrap-around that forgets to add GRID_SIZE before the remainder
NewHeadNoOffset(head, direction) ==
  [x |-> JsRem(Step(head, direction).x, GRID_SIZE),
   y |-> JsRem(Step(head, direction).y, GRID_SIZE)]

\* the switch on player.direction followed by the wrap-around
NewHead(head, direction) ==
  LET moved == Step(head, direction)
  IN [x |-> JsRem(moved.x + GRID_SIZE, GRID_SIZE),
      y |-> JsRem(moved.y + GRID_SIZE, GRID_SIZE)]

AteFood(f, head) == f # NoFood /\ head.x = f.x /\ head.y = f.y

\* movePlayer with the reward of 10 of an earlier revision
movePlayerTen(st, id, cl) ==
  LET player == st.players[id]
      head == NewHead(player.snake[1], player.direction)
      grown == <<head>> \o player.snake
  IN IF ~player.alive THEN {st}
     ELSE IF AteFood(st.food, head)
     THEN LET ps == [st.players EXCEPT ![id].snake = grown,
                                       ![id].score = @ + 10]
          IN {[players |-> ps, food |-> g.food, attempts |-> g.attempts,
               out |-> st.out
                       \o (IF id \in cl
                           THEN <<[type |-> "scoreUpdate", to |-> id,
                                   score |-> ps[id].score]>>
                           ELSE <<>>)
                       \o broadcastPlayersUpdate(ps, cl)] : g \in generateFood(ps)}
     ELSE {[st EXCEPT !.players[id].snake = SubSeq(grown, 1, Len(grown) - 1)]}

\* a movePlayer that drops the tail when the player ate, too
movePlayerPop(st, id, cl) ==
  LET player == st.players[id]
      head == NewHead(player.snake[1], player.direction)
      grown == <<head>> \o player.snake
  IN IF ~player.alive THEN {st}
     ELSE IF AteFood(st.food, head)
     THEN LET ps == [st.players EXCEPT
                       ![id].snake = SubSeq(grown, 1, Len(grown) - 1),
                       ![id].score = @ + FOOD_SCORE]
          IN {[players |-> ps, food |-> g.food, attempts |-> g.attempts,
               out |-> st.out
                       \o (IF id \in cl
                           THEN <<[type |-> "scoreUpdate", to |-> id,
                                   score |-> ps[id].score]>>
                           ELSE <<>>)
                       \o broadcastPlayersUpdate(ps, cl)] : g \in generateFood(ps)}
     ELSE {[st EXCEPT !.players[id].snake = SubSeq(grown, 1, Len(grown) - 1)]}

\* movePlayer on the world st = [players, food, attempts, out]: the set of
\* worlds it can leave (the draws of generateFood differ)
movePlayer(st, id, cl) ==
  LET player == st.players[id]
      head == NewHead(player.snake[1], player.direction)
      grown == <<head>> \o player.snake
  IN IF ~player.alive THEN {st}
     ELSE IF AteFood(st.food, head)
     THEN LET ps == [st.players EXCEPT ![id].snake = grown,
                                       ![id].score = @ + FOOD_SCORE]
          IN {[players |-> ps, food |-> g.food, attempts |-> g.attempts,
               out |-> st.out
                       \o (IF id \in cl
                           THEN <<[type |-> "scoreUpdate", to |-> id,
                                   score |-> ps[id].score]>>
                           ELSE <<>>)
                       \o broadcastPlayersUpdate(ps, cl)] : g \in generateFood(ps)}
     ELSE {[st EXCEPT !.players[id].snake = SubSeq(grown, 1, Len(grown) - 1)]}

RECURSIVE MoveAll(_, _, _)
\* Object.values(gameState.players).forEach(movePlayer)
MoveAll(S, ids, cl) ==
  IF ids = <<>> THEN S
  ELSE MoveAll(UNION {movePlayer(st, Head(ids), cl) : st \in S}, Tail(ids), cl)

\* a collection of segments that takes the dead snakes too
AllSegmentsWithDead(ps) ==
  UNION {{[x |-> ps[id].snake[i].x, y |-> ps[id].snake[i].y, playerId |-> id,
           isHead |-> (i = 1)] : i \in 1..Len(ps[id].snake)} :
         id \in DOMAIN ps}

AllSegments(ps) ==
  UNION {{[x |-> ps[id].snake[i].x, y |-> ps[id].snake[i].y, playerId |-> id,
           isHead |-> (i = 1)] : i \in 1..Len(ps[id].snake)} :
         id \in {a \in DOMAIN ps : ps[a].alive}}

\* a collision test that looks at the heads of the other players only
CollisionHeadsOnly(ps, id) ==
  \E segment \in AllSegments(ps) :
    /\ segment.x = ps[id].snake[1].x
    /\ segment.y = ps[id].snake[1].y
    /\ segment.playerId # id /\ segment.isHead

\* a collision test that looks at the snakes of the other players only
CollisionOthersOnly(ps, id) ==
  \E segment \in AllSegments(ps) :
    /\ segment.x = ps[id].snake[1].x
    /\ segment.y = ps[id].snake[1].y
    /\ segment.playerId # id

\* allSegments.find(...) of checkCollisions, for player id
Collision(ps, id) ==
  \E segment \in AllSegments(ps) :
    /\ segment.x = ps[id].snake[1].x
    /\ segment.y = ps[id].snake[1].y
    /\ (segment.playerId # id \/ ~segment.isHead)

\* allSegments.find(...) for the player id with head cell head, over the
\* segments collected before the loop
FindCollision(allSegments, head, id) ==
  \E segment \in allSegments :
    /\ segment.x = head.x
    /\ segment.y = head.y
    /\ (segment.playerId # id \/ ~segment.isHead)

RECURSIVE checkCollisionsLoopRebuild(_, _, _)
\* a loop that collects the segments of the alive players anew for every
\* player it looks at
checkCollisionsLoopRebuild(ps, allSegments, ids) ==
  IF ids = <<>> THEN ps
  ELSE LET id == Head(ids)
           after == IF ps[id].alive /\ FindCollision(allSegments, ps[id].snake[1], id)
                    THEN [ps EXCEPT ![id].alive = FALSE]
                    ELSE ps
       IN checkCollisionsLoopRebuild(after, AllSegments(after), Tail(ids))

RECURSIVE checkCollisionsLoop(_, _, _)
\* the second forEach of checkCollisions, player by player in the order ids,
\* over the segments allSegments collected by the first forEach: the players
\* with their alive flags after the loop
checkCollisionsLoop(ps, allSegments, ids) ==
  IF ids = <<>> THEN ps
  ELSE LET id == Head(ids)
           after == IF ps[id].alive /\ FindCollision(allSegments, ps[id].snake[1], id)
                    THEN [ps EXCEPT ![id].alive = FALSE]
                    ELSE ps
       IN checkCollisionsLoop(after, allSegments, Tail(ids))

Dies(ps, id) == ps[id].alive /\ Collision(ps, id)

RECURSIVE GameOversEveryTick(_, _, _)
\* gameOver sends that are repeated for a dead player in every tick
GameOversEveryTick(ps, ids, cl) ==
  IF ids = <<>> THEN <<>>
  ELSE (IF (~ps[Head(ids)].alive \/ Dies(ps, Head(ids))) /\ Head(ids) \in cl
        THEN <<[type |-> "gameOver", to |-> Head(ids),
                score |-> ps[Head(ids)].score]>>
        ELSE <<>>) \o GameOversEveryTick(ps, Tail(ids), cl)

RECURSIVE GameOvers(_, _, _)
\* the gameOver sends of checkCollisions, in iteration order
GameOvers(ps, ids, cl) ==
  IF ids = <<>> THEN <<>>
  ELSE (IF Dies(ps, Head(ids)) /\ Head(ids) \in cl
        THEN <<[type |-> "gameOver", to |-> Head(ids),
                score |-> ps[Head(ids)].score]>>
        ELSE <<>>) \o GameOvers(ps, Tail(ids), cl)

checkCollisions(st, cl) ==
  [st EXCEPT
     !.players = [id \in DOMAIN st.players |->
                    IF Dies(st.players, id)
                    THEN [st.players[id] EXCEPT !.alive = FALSE]
                    ELSE st.players[id]],
     !.out = @ \o GameOvers(st.players, Order(DOMAIN st.players), cl)]

\* the last step of updateGame: food is drawn when there is none, or with
\* probability 0.02 (refresh)
FoodFreshness(st, refresh) ==
  IF st.food = NoFood \/ refresh
  THEN {[st EXCEPT !.food = g.food, !.attempts = g.attempts] :
          g \in generateFood(st.players)}
  ELSE {st}

updateGame(ps, f, att, cl, refresh) ==
  LET start == [players |-> CommitDirections(ps), food |-> f, attempts |-> att,
                out |-> <<>>]
      moved == MoveAll({start}, Order(DOMAIN ps), cl)
  IN UNION {FoodFreshness(checkCollisions(st, cl), refresh) : st \in moved}

\* ------------------------------------------------------------------ state
\* ev names the handler that ran last; for a message, what became of it
Malformed(m) ==
  \/ m.kind \in {"unparseable", "nonobject"}
  \/ m.kind = "object" /\ m.type \notin {"directionChange", "setName"}
  \/ m.kind = "object" /\ m.type = "setName" /\ ~m.name.isString

MessageEvent(ps, playerId, m) ==
  IF Malformed(m) THEN "malformed"
  ELSE IF playerId \notin DOMAIN ps THEN "late"
  ELSE IF m.type = "setName" THEN "setName"
  ELSE IF m.direction = Reverse(ps[playerId].direction) THEN "reversal"
  ELSE "directionChange"

Init ==
  /\ players = <<>>
  /\ food = NoFood
  /\ gameInterval = FALSE
  /\ clients = {}
  /\ outbox = <<>>
  /\ nextId = 1
  /\ ticks = 0
  /\ msgs = 0
  /\ foodAttempts = 0
  /\ ev = "none"

\* wss.on('connection')
OnConnection(pos, dir) ==
  /\ LET playerId == nextId
         ps == Put(players, playerId,
                   [name |-> DefaultName(players), snake |-> <<pos>>,
                    direction |-> dir, pendingDirection |-> Null,
                    score |-> 0, alive |-> TRUE])
         cl == clients \cup {playerId}
     IN /\ players' = ps
        /\ clients' = cl
        /\ outbox' = sendToPlayer(ps, cl, playerId,
                                  [type |-> "init", to |-> 0,
                                   gameState |-> getClientGameState(ps, food, playerId)])
                     \o broadcastPlayersUpdate(ps, cl)
        /\ gameInterval' = TRUE
        /\ nextId' = nextId + 1
        /\ ev' = "connect"
  /\ UNCHANGED <<food, ticks, msgs, foodAttempts>>

\* one of the first MaxConnects connections
Connect(pos, dir) ==
  /\ nextId <= MaxConnects
  /\ (nextId - 1) + msgs < MaxInputs
  /\ OnConnection(pos, dir)

\* a message handler that coerces the name with String(data.name)
OnMessageCoerce(ps, cl, playerId, m) ==
  LET same == [players |-> ps, out |-> <<>>]
  IN IF m.kind = "unparseable" THEN same
     ELSE IF m.kind = "nonobject" THEN same
     ELSE IF m.type = "directionChange" /\ playerId \in DOMAIN ps
     THEN IF ~IsReversal(ps[playerId].direction, m.direction)
          THEN [players |-> [ps EXCEPT ![playerId].pendingDirection = m.direction],
                out |-> <<>>]
          ELSE same
     ELSE IF m.type = "setName" /\ playerId \in DOMAIN ps
     THEN LET chars == IF m.name.isString THEN m.name.chars
                       ELSE <<"n", "u", "l", "l">>
              named == [ps EXCEPT ![playerId].name = Substring15(chars)]
          IN [players |-> named, out |-> broadcastPlayersUpdate(named, cl)]
     ELSE same

\* the outcome of ws.on('message') for connection playerId: [players, out]
OnMessage(ps, cl, playerId, m) ==
  LET same == [players |-> ps, out |-> <<>>]
  IN IF m.kind = "unparseable" THEN same          \* JSON.parse throws
     ELSE IF m.kind = "nonobject" THEN same       \* data.type throws or is undefined
     ELSE IF m.type = "directionChange" /\ playerId \in DOMAIN ps
     THEN IF ~IsReversal(ps[playerId].direction, m.direction)
          THEN [players |-> [ps EXCEPT ![playerId].pendingDirection = m.direction],
                out |-> <<>>]
          ELSE same
     ELSE IF m.type = "setName" /\ playerId \in DOMAIN ps
     THEN IF m.name.isString
          THEN LET named == [ps EXCEPT ![playerId].name = Substring15(m.name.chars)]
               IN [players |-> named, out |-> broadcastPlayersUpdate(named, cl)]
          ELSE same                               \* data.name.substring throws
     ELSE same

Message(playerId, m) ==
  /\ playerId \in 1..(nextId - 1)
  /\ (nextId - 1) + msgs < MaxInputs
  /\ msgs' = msgs + 1
  /\ LET r == OnMessage(players, clients, playerId, m)
     IN /\ players' = r.players
        /\ outbox' = r.out
  /\ ev' = MessageEvent(players, playerId, m)
  /\ UNCHANGED <<food, gameInterval, clients, nextId, ticks, foodAttempts>>

\* the socket of a connected player leaves readyState OPEN; its 'close'
\* event has not been delivered yet
SocketClosing(playerId) ==
  /\ playerId \in clients
  /\ clients' = clients \ {playerId}
  /\ outbox' = <<>>
  /\ ev' = "closing"
  /\ UNCHANGED <<players, food, gameInterval, nextId, ticks, msgs, foodAttempts>>

\* a close handler that leaves the timer running
CloseNoStop(playerId) ==
  /\ playerId \in DOMAIN players
  /\ playerId \notin clients
  /\ players' = Delete(players, playerId)
  /\ outbox' = broadcastPlayersUpdate(players', clients)
  /\ ev' = "close"
  /\ UNCHANGED <<food, gameInterval, clients, nextId, ticks, msgs, foodAttempts>>

\* a close handler that sends the roster before it deletes the player
CloseBroadcastFirst(playerId) ==
  /\ playerId \in DOMAIN players
  /\ playerId \notin clients
  /\ LET ps == Delete(players, playerId)
     IN /\ players' = ps
        /\ outbox' = broadcastPlayersUpdate(players, clients)
        /\ gameInterval' = IF DOMAIN ps = {} THEN FALSE ELSE gameInterval
  /\ ev' = "close"
  /\ UNCHANGED <<food, clients, nextId, ticks, msgs, foodAttempts>>

\* ws.on('close')
Close(playerId) ==
  /\ playerId \in DOMAIN players
  /\ playerId \notin clients
  /\ LET ps == Delete(players, playerId)
     IN /\ players' = ps
        /\ outbox' = broadcastPlayersUpdate(ps, clients)
        /\ gameInterval' = IF DOMAIN ps = {} THEN FALSE ELSE gameInterval
  /\ ev' = "close"
  /\ UNCHANGED <<food, clients, nextId, ticks, msgs, foodAttempts>>

\* the setInterval callback of startGameLoop
Tick(refresh) ==
  /\ gameInterval
  /\ ticks < MaxTicks
  /\ \E st \in updateGame(players, food, foodAttempts, clients, refresh) :
       /\ players' = st.players
       /\ food' = st.food
       /\ foodAttempts' = st.attempts
       /\ outbox' = st.out \o broadcastGameState(st.players, st.food, clients)
  /\ ticks' = ticks + 1
  /\ ev' = "tick"
  /\ UNCHANGED <<gameInterval, clients, nextId, msgs>>

Next ==
  \/ \E pos \in SpawnCells, dir \in Headings : Connect(pos, dir)
  \/ \E playerId \in 1..MaxConnects, m \in Payloads : Message(playerId, m)
  \/ \E playerId \in 1..MaxConnects : SocketClosing(playerId)
  \/ \E playerId \in 1..MaxConnects : Close(playerId)
  \/ \E refresh \in BOOLEAN : Tick(refresh)

Spec == Init /\ [][Next]_vars

\* ------------------------------------------------------------------ send failure
\* The second specification adds ticks in which every send to one open
\* connection (bad) throws.  The broadcasts catch the throw per client and
\* go on; the scoreUpdate of movePlayer and the gameOver of checkCollisions
\* are sent outside any try, so their throw leaves updateGame and is caught
\* by the timer callback, after updateGame and before broadcastGameState.
\* A world carries thrown: the throw has left updateGame.

\* the messages of out whose send did not throw
Delivered(out, bad) == SelectSeq(out, LAMBDA m : m.to # bad)

movePlayerSendFails(st, id, cl, bad) ==
  LET player == st.players[id]
      head == NewHead(player.snake[1], player.direction)
      ps == [st.players EXCEPT ![id].snake = <<head>> \o player.snake,
                               ![id].score = @ + FOOD_SCORE]
  IN IF st.thrown THEN {st}
     ELSE IF player.alive /\ AteFood(st.food, head) /\ id = bad /\ id \in cl
     THEN {[players |-> ps, food |-> g.food, attempts |-> g.attempts,
            out |-> st.out, thrown |-> TRUE] : g \in generateFood(ps)}
     ELSE {[players |-> to.players, food |-> to.food, attempts |-> to.attempts,
            out |-> Delivered(to.out, bad), thrown |-> FALSE] :
             to \in movePlayer([players |-> st.players, food |-> st.food,
                                attempts |-> st.attempts, out |-> st.out],
                               id, cl)}

RECURSIVE MoveAllSendFails(_, _, _, _)
MoveAllSendFails(S, ids, cl, bad) ==
  IF ids = <<>> THEN S
  ELSE MoveAllSendFails(
         UNION {movePlayerSendFails(st, Head(ids), cl, bad) : st \in S},
         Tail(ids), cl, bad)

\* the loop over the players ends at bad when bad dies: it is marked dead,
\* its gameOver throws, the players after it are not looked at
checkCollisionsSendFails(st, cl, bad) ==
  LET ps == st.players
      reached == {id \in DOMAIN ps : id <= bad}
  IN IF st.thrown THEN st
     ELSE IF bad \in DOMAIN ps /\ Dies(ps, bad) /\ bad \in cl
     THEN [st EXCEPT
             !.players = [id \in DOMAIN ps |->
                            IF id \in reached /\ Dies(ps, id)
                            THEN [ps[id] EXCEPT !.alive = FALSE]
                            ELSE ps[id]],
             !.out = @ \o GameOvers(ps, Order(reached \ {bad}), cl),
             !.thrown = TRUE]
     ELSE [st EXCEPT
             !.players = [id \in DOMAIN ps |->
                            IF Dies(ps, id)
                            THEN [ps[id] EXCEPT !.alive = FALSE]
                            ELSE ps[id]],
             !.out = @ \o GameOvers(ps, Order(DOMAIN ps), cl)]

FoodFreshnessSendFails(st, refresh) ==
  IF ~st.thrown /\ (st.food = NoFood \/ refresh)
  THEN {[st EXCEPT !.food = g.food, !.attempts = g.attempts] :
          g \in generateFood(st.players)}
  ELSE {st}

updateGameSendFails(ps, f, att, cl, refresh, bad) ==
  LET start == [players |-> CommitDirections(ps), food |-> f, attempts |-> att,
                out |-> <<>>, thrown |-> FALSE]
      moved == MoveAllSendFails({start}, Order(DOMAIN ps), cl, bad)
  IN UNION {FoodFreshnessSendFails(checkCollisionsSendFails(st, cl, bad), refresh) :
              st \in moved}

\* the setInterval callback when the sends to bad throw
TickSendFails(refresh, bad) ==
  /\ gameInterval
  /\ ticks < MaxTicks
  /\ bad \in clients
  /\ \E st \in updateGameSendFails(players, food, foodAttempts, clients,
                                    refresh, bad) :
       /\ players' = st.players
       /\ food' = st.food
       /\ foodAttempts' = st.attempts
       /\ outbox' = IF st.thrown THEN st.out
                    ELSE st.out
                         \o Delivered(broadcastGameState(st.players, st.food,
                                                         clients), bad)
  /\ ticks' = ticks + 1
  /\ ev' = "tickSendFails"
  /\ UNCHANGED <<gameInterval, clients, nextId, msgs>>

NextSendFails ==
  \/ Next
  \/ \E refresh \in BOOLEAN, bad \in 1..MaxConnects : TickSendFails(refresh, bad)

SpecSendFails == Init /\ [][NextSendFails]_vars

\* ------------------------------------------------------------------ rejoin
\* The third specification adds connections that arrive after the first
\* MaxConnects, once the close handler of some player has run.

RejoinIds == (MaxConnects + 1)..(MaxConnects + MaxRejoins)

Rejoin(pos, dir) ==
  /\ nextId \in RejoinIds
  /\ DOMAIN players # 1..(nextId - 1)
  /\ (nextId - 1) + msgs < MaxInputs
  /\ OnConnection(pos, dir)

NextRejoin ==
  \/ Next
  \/ \E pos \in SpawnCells, dir \in Headings : Rejoin(pos, dir)
  \/ \E playerId \in RejoinIds : SocketClosing(playerId)
  \/ \E playerId \in RejoinIds : Close(playerId)

SpecRejoin == Init /\ [][NextRejoin]_vars

\* ------------------------------------------------------------------ claims
\* a step of the timer callback
TickStep == ticks' = ticks + 1
\* a step of the message handler
MessageStep == msgs' = msgs + 1

Alive(ps) == {id \in DOMAIN ps : ps[id].alive}

\* C1 as claimed: in a tick no alive player's heading becomes the reverse of
\* what it was, and a directionChange naming the reverse of the current
\* heading leaves the heading unchanged after the next tick (here: the tick
\* that directly follows that message of the only connected player).
C1_ReverseLeavesHeading ==
  [][TickStep =>
       \A id \in Alive(players) :
         /\ players'[id].direction # Reverse(players[id].direction)
         /\ (ev = "reversal" /\ DOMAIN players = {id}
               => players'[id].direction = players[id].direction)]_vars

\* C1 amended: in a tick no alive player's heading becomes the reverse of
\* what it was; a directionChange naming the reverse of the current heading
\* is dropped (it changes no player, the pending heading stays what it was),
\* and a tick leaves the heading of an alive player with no pending heading
\* unchanged.
C1_NoReversal ==
  [][/\ TickStep =>
          \A id \in Alive(players) :
            /\ players'[id].direction # Reverse(players[id].direction)
            /\ (players[id].pendingDirection = Null
                  => players'[id].direction = players[id].direction)
     /\ (MessageStep /\ ev' = "reversal") => players' = players]_vars

\* a reversal was refused while an earlier turn of that player is buffered
C1_Witness ==
  /\ ev = "reversal"
  /\ \E id \in Alive(players) : players[id].pendingDirection \in Headings

\* the cell one step from c in heading h on the torus
Shift(c, h) ==
  LET dx == IF h = "left" THEN -1 ELSE IF h = "right" THEN 1 ELSE 0
      dy == IF h = "up" THEN -1 ELSE IF h = "down" THEN 1 ELSE 0
  IN Cell((c.x + dx) % GRID_SIZE, (c.y + dy) % GRID_SIZE)

InGrid(c) == c.x \in 0..(GRID_SIZE - 1) /\ c.y \in 0..(GRID_SIZE - 1)

\* C2: in a tick the head of every alive player with one of the four headings
\* moves one cell in that heading, modulo GRID_SIZE in both coordinates, and
\* every segment of every snake is always inside the grid.
C2_Toroidal ==
  /\ [][TickStep =>
          \A id \in Alive(players) :
            players'[id].direction \in Headings =>
              players'[id].snake[1] =
                Shift(players[id].snake[1], players'[id].direction)]_vars
  /\ [](\A id \in DOMAIN players : \A i \in 1..Len(players[id].snake) :
          InGrid(players[id].snake[i]))

\* after the first tick a player that started at x = 0 heading left is at
\* x = GRID_SIZE - 1
C2_Witness ==
  /\ ev = "tick" /\ ticks = 1
  /\ \E id \in Alive(players) :
       players[id].direction = "left" /\ players[id].snake[1] = Cell(24, 24)

\* the worlds in which movePlayer is called for the k-th player of a tick
\* that starts in the current state
MovedBefore(k) ==
  MoveAll({[players |-> CommitDirections(players), food |-> food,
            attempts |-> foodAttempts, out |-> <<>>]},
          SubSeq(Order(DOMAIN players), 1, k - 1), clients)

Grows(before, after) ==
  /\ after.score = before.score + FOOD_SCORE
  /\ Len(after.snake) = Len(before.snake) + 1

Keeps(before, after) ==
  /\ after.score = before.score
  /\ Len(after.snake) = Len(before.snake)

\* C3: each time movePlayer moves an alive player in a tick, if the new head
\* is on the food cell of that moment the score grows by FOOD_SCORE and the
\* length by 1, otherwise both stay; so over the tick every alive player
\* either grows so or keeps both, and the first to move grows exactly when
\* its new head is on the food the tick started with.
C3_EatOrKeep ==
  /\ [](\A k \in 1..Cardinality(DOMAIN players) :
          LET id == Order(DOMAIN players)[k]
          IN \A st \in MovedBefore(k) :
               st.players[id].alive =>
                 \A to \in movePlayer(st, id, clients) :
                   IF st.food # NoFood /\ to.players[id].snake[1] = st.food
                   THEN Grows(st.players[id], to.players[id])
                   ELSE Keeps(st.players[id], to.players[id]))
  /\ [][TickStep =>
          \A id \in Alive(players) :
            /\ Grows(players[id], players'[id]) \/ Keeps(players[id], players'[id])
            /\ (\A other \in Alive(players) : other >= id)
                 => (Grows(players[id], players'[id])
                       <=> (food # NoFood /\ players'[id].snake[1] = food))]_vars

\* two players ate in the second tick: the second ate the food drawn when
\* the first ate
C3_Witness ==
  /\ ev = "tick" /\ ticks = 2
  /\ Cardinality({id \in Alive(players) :
                    players[id].score = FOOD_SCORE /\ Len(players[id].snake) = 2}) = 2

\* the world of the scenario: one player, alive, one cell long at (5,5),
\* heading right with no other direction pending, food at (6,5)
Scenario4(id) ==
  /\ DOMAIN players = {id}
  /\ players[id].alive
  /\ players[id].snake = <<Cell(5, 5)>>
  /\ players[id].direction = "right"
  /\ players[id].pendingDirection \in {Null, "right"}
  /\ food = Cell(6, 5)

\* C4 as claimed: from the scenario one tick leaves the snake [(6,5)], the
\* score FOOD_SCORE and the food away from (6,5).
C4_ScenarioAsClaimed ==
  [][\A id \in DOMAIN players :
       (TickStep /\ Scenario4(id)) =>
         /\ players'[id].snake = <<Cell(6, 5)>>
         /\ players'[id].score = FOOD_SCORE
         /\ food' # Cell(6, 5)]_vars

\* C4 amended: from the scenario one tick leaves the snake [(6,5),(5,5)]
\* (the snake grew), the score FOOD_SCORE, and the food away from (6,5)
\* unless generateFood used up its maxAttempts draws.
C4_Scenario ==
  [][\A id \in DOMAIN players :
       (TickStep /\ Scenario4(id)) =>
         /\ players'[id].snake = <<Cell(6, 5), Cell(5, 5)>>
         /\ players'[id].score = FOOD_SCORE
         /\ (foodAttempts' < maxAttempts => food' # Cell(6, 5))]_vars

C4_Witness ==
  /\ ev = "tick" /\ ticks = 2
  /\ \E id \in DOMAIN players :
       /\ DOMAIN players = {id}
       /\ players[id].alive /\ players[id].direction = "right"
       /\ players[id].snake = <<Cell(6, 5), Cell(5, 5)>>
       /\ players[id].score = FOOD_SCORE
       /\ food # Cell(6, 5)

\* after the movement of a tick, the head of id is on a segment of another
\* player that was alive, or on a segment of its own snake behind the head
HeadHit(id) ==
  \/ \E other \in Alive(players) \ {id} :
       \E i \in 1..Len(players'[other].snake) :
         players'[other].snake[i] = players'[id].snake[1]
  \/ \E i \in 2..Len(players'[id].snake) :
       players'[id].snake[i] = players'[id].snake[1]

\* C5: a tick marks dead every alive player whose head, after the movement,
\* is on a segment of another alive player or on a later segment of its own
\* snake; and no step makes a dead player alive again or changes its snake,
\* heading or score while it is connected.
C5_DeathPermanent ==
  [][/\ TickStep =>
          \A id \in Alive(players) : HeadHit(id) => ~players'[id].alive
     /\ \A id \in DOMAIN players \cap DOMAIN players' :
          ~players[id].alive =>
            /\ ~players'[id].alive
            /\ players'[id].snake = players[id].snake
            /\ players'[id].direction = players[id].direction
            /\ players'[id].score = players[id].score]_vars

HasMessage(box, type, to) ==
  \E i \in 1..Len(box) : box[i].type = type /\ box[i].to = to

\* a tick ran over a player that died in an earlier tick (its connection is
\* open and this tick sent it no gameOver)
C5_Witness ==
  /\ ev = "tick"
  /\ \E id \in clients : ~players[id].alive /\ ~HasMessage(outbox, "gameOver", id)

\* after the movement of a tick, no segment of any snake but the own head is
\* on the head cell of id
HeadCellFree(id) ==
  /\ \A other \in DOMAIN players \ {id} :
       \A i \in 1..Len(players'[other].snake) :
         players'[other].snake[i] # players'[id].snake[1]
  /\ \A i \in 2..Len(players'[id].snake) :
       players'[id].snake[i] # players'[id].snake[1]

\* C6: a tick leaves alive every alive player whose head cell holds no segment
\* but its own head; in particular a tick leaves alive a player that is
\* alone, alive and one cell long.
C6_SelfHeadNoCollision ==
  [][TickStep =>
       \A id \in Alive(players) :
         /\ HeadCellFree(id) => players'[id].alive
         /\ (DOMAIN players = {id} /\ Len(players[id].snake) = 1)
              => players'[id].alive]_vars

Last(seq) == seq[Len(seq)]

\* after the movement of a tick the head of a is on the tail cell of b
OnTail(a, b) == players'[a].snake[1] = Last(players'[b].snake)

GameUpdates(box) == {i \in 1..Len(box) : box[i].type = "gameUpdate"}

\* C7 as claimed: when in a tick the head of A moves onto the tail cell of B,
\* every gameUpdate of the tick shows A dead and B alive, and A is sent a
\* gameOver.
C7_TailHitAsClaimed ==
  [][TickStep =>
       \A a \in Alive(players) : \A b \in Alive(players) \ {a} :
         OnTail(a, b) =>
           /\ \A i \in GameUpdates(outbox') :
                /\ ~outbox'[i].gameState.players[a].alive
                /\ outbox'[i].gameState.players[b].alive
           /\ HasMessage(outbox', "gameOver", a)]_vars

\* C7 amended: when in a tick the head of A moves onto the tail cell of B,
\* every open connection is sent a gameUpdate, each shows A dead, and shows B
\* alive provided the head of B is itself on no segment of another alive
\* player and on no later segment of B; A is sent a gameOver with its score
\* provided its connection is open.
C7_TailHit ==
  [][TickStep =>
       \A a \in Alive(players) : \A b \in Alive(players) \ {a} :
         OnTail(a, b) =>
           /\ \A c \in clients : HasMessage(outbox', "gameUpdate", c)
           /\ \A i \in GameUpdates(outbox') :
                /\ ~outbox'[i].gameState.players[a].alive
                /\ ~HeadHit(b) => outbox'[i].gameState.players[b].alive
           /\ a \in clients =>
                \E i \in 1..Len(outbox') :
                  outbox'[i] = [type |-> "gameOver", to |-> a,
                                score |-> players'[a].score]]_vars

\* A, one cell long, ran into the tail of B, two cells long: A is dead and
\* was sent a gameOver, B is alive, and the gameUpdate shows both
C7_Witness ==
  /\ ev = "tick"
  /\ \E a \in clients : \E b \in DOMAIN players \ {a} :
       /\ Len(players[b].snake) = 2
       /\ players[a].snake[1] = Last(players[b].snake)
       /\ HasMessage(outbox, "gameOver", a)
       /\ \E i \in GameUpdates(outbox) :
            /\ ~outbox[i].gameState.players[a].alive
            /\ outbox[i].gameState.players[b].alive

\* C8: the timer is set exactly while a player is connected; a tick runs, and
\* a gameUpdate is sent, only with a player connected.
C8_TimerIffPlayers ==
  /\ gameInterval <=> DOMAIN players # {}
  /\ ev = "tick" => DOMAIN players # {}
  /\ GameUpdates(outbox) # {} => DOMAIN players # {}

\* the second player connected after the first had left: the timer, stopped
\* by the close, runs again
C8_Witness ==
  /\ ev = "connect"
  /\ DOMAIN players = {2}
  /\ gameInterval

\* the playersUpdate messages of box that show id dead
ShowsDead(box, id) ==
  {i \in 1..Len(box) :
     /\ box[i].type = "playersUpdate"
     /\ id \in DOMAIN box[i].players
     /\ ~box[i].players[id].alive}

\* C9 as claimed, for two ticks in a row: a player that the first tick marked
\* dead (it was sent a gameOver) was shown dead by a playersUpdate before the
\* second tick starts.
C9_RosterOnDeath ==
  [][(TickStep /\ ev = "tick") =>
       \A id \in DOMAIN players :
         HasMessage(outbox, "gameOver", id) => ShowsDead(outbox, id) # {}]_vars

World == <<players, food, gameInterval, clients, foodAttempts>>

\* C10: handling a malformed message (it does not parse, it is not an object,
\* its type is unknown, or it is a setName whose name is no string) changes no
\* player, not the food, not the timer and not the set of connections, and
\* sends nothing.
C10_MalformedDiscarded ==
  [][\A playerId \in 1..MaxConnects : \A m \in Payloads :
       (Malformed(m) /\ Message(playerId, m)) =>
         /\ UNCHANGED World
         /\ outbox' = <<>>]_vars

\* a malformed message of a connected player was handled, and the timer runs
C10_Witness ==
  /\ ev = "malformed"
  /\ players # <<>>
  /\ gameInterval

\* C11 as claimed: in a tick in which the sends to one open connection fail,
\* every alive player is still moved one step in its committed heading,
\* every alive player whose head is then on a segment of another alive player
\* or on a later segment of its own is marked dead, and every other open
\* connection is sent the gameUpdate of the tick.
C11_SendFailureTolerated ==
  [][(TickStep /\ ev' = "tickSendFails") =>
       /\ \A id \in Alive(players) :
            /\ players'[id].snake[1] =
                 NewHead(players[id].snake[1], players'[id].direction)
            /\ HeadHit(id) => ~players'[id].alive
       /\ \E bad \in clients :
            \A c \in clients \ {bad} : HasMessage(outbox', "gameUpdate", c)]_vars

\* the connections whose close handler has run
Disconnected == (1..(nextId - 1)) \ DOMAIN players

\* the player ids a message carries in its payload
PayloadIds(m) ==
  IF m.type = "playersUpdate" THEN DOMAIN m.players
  ELSE IF m.type \in {"gameUpdate", "init"} THEN DOMAIN m.gameState.players
  ELSE {}

\* C12: the close handler removes its player; a removed player never comes
\* back, whatever the other players do; no playersUpdate, gameUpdate or init
\* sent by any handler carries the id of a player that is not in the world
\* after that handler; and a message from a connection whose close handler
\* has run changes nothing and sends nothing.
C12_GoneAfterDisconnect ==
  /\ [](\A i \in 1..Len(outbox) : PayloadIds(outbox[i]) \subseteq DOMAIN players)
  /\ [][/\ \A id \in 1..MaxConnects : Close(id) => id \in Disconnected'
        /\ Disconnected \subseteq Disconnected'
        /\ \A id \in Disconnected : \A m \in Payloads :
             Message(id, m) => (UNCHANGED World /\ outbox' = <<>>)]_vars

\* a tick broadcast the world of a remaining player after the close handler
\* of another player had run
C12_Witness ==
  /\ ev = "tick"
  /\ Disconnected # {}
  /\ \E i \in GameUpdates(outbox) : DOMAIN outbox[i].gameState.players # {}

\* a segment of a living snake is on cell c
OccupiedByLiving(ps, c) ==
  \E id \in Alive(ps) : \E i \in 1..Len(ps[id].snake) : ps[id].snake[i] = c

\* C13: every food cell that generateFood returns after fewer than
\* maxAttempts draws is free of the segments of every living snake at that
\* moment: when movePlayer draws food for the k-th player of a tick that ate
\* (the snakes as they are in the middle of the movement), when the tick
\* draws food at its end (first creation or refresh), and so after every tick
\* that changed the food.
C13_FoodOnFreeCell ==
  /\ [](\A k \in 1..Cardinality(DOMAIN players) :
          LET id == Order(DOMAIN players)[k]
          IN \A st \in MovedBefore(k) : \A to \in movePlayer(st, id, clients) :
               (to.players[id].score # st.players[id].score
                  /\ to.attempts < maxAttempts)
                 => ~OccupiedByLiving(to.players, to.food))
  /\ [](\A st \in MovedBefore(Cardinality(DOMAIN players) + 1) :
          \A to \in FoodFreshness(checkCollisions(st, clients), TRUE) :
            to.attempts < maxAttempts => ~OccupiedByLiving(to.players, to.food))
  /\ [][(TickStep /\ food' # food /\ foodAttempts' < maxAttempts)
          => ~OccupiedByLiving(players', food')]_vars

\* the second tick: a player ate, it is two cells long, and the food drawn
\* at that moment is on a free cell
C13_Witness ==
  /\ ev = "tick" /\ ticks = 2
  /\ foodAttempts < maxAttempts
  /\ \E id \in Alive(players) :
       players[id].score = FOOD_SCORE /\ Len(players[id].snake) = 2
  /\ ~OccupiedByLiving(players, food)

\* the gameOver messages of box sent to connection id
GameOversTo(box, id) == {i \in 1..Len(box) : box[i].type = "gameOver" /\ box[i].to = id}

\* a tick marks id dead
DiesInStep(id) == players[id].alive /\ ~players'[id].alive

\* C14 as claimed: a tick sends exactly one gameOver, with the score of that
\* moment, to every player it marks dead and none to any other connection,
\* and no other step sends a gameOver.
C14_GameOverAtDeathAsClaimed ==
  [][/\ TickStep =>
          \A id \in DOMAIN players :
            /\ Cardinality(GameOversTo(outbox', id)) = IF DiesInStep(id) THEN 1 ELSE 0
            /\ \A i \in GameOversTo(outbox', id) : outbox'[i].score = players'[id].score
     /\ ~TickStep => \A i \in 1..Len(outbox') : outbox'[i].type # "gameOver"]_vars

\* C14 amended: a tick sends exactly one gameOver, with the score of that
\* moment, to every player it marks dead whose connection is open, and none
\* to any other connection; no other step sends a gameOver; and a dead player
\* stays dead while it is connected, so a connection is sent at most one
\* gameOver.
C14_GameOverAtDeath ==
  [][/\ TickStep =>
          /\ \A id \in DOMAIN players :
               /\ Cardinality(GameOversTo(outbox', id)) =
                    IF DiesInStep(id) /\ id \in clients THEN 1 ELSE 0
               /\ \A i \in GameOversTo(outbox', id) :
                    outbox'[i].score = players'[id].score
          /\ \A i \in 1..Len(outbox') :
               outbox'[i].type = "gameOver" => outbox'[i].to \in DOMAIN players
     /\ ~TickStep => \A i \in 1..Len(outbox') : outbox'[i].type # "gameOver"
     /\ \A id \in DOMAIN players \cap DOMAIN players' :
          ~players[id].alive => ~players'[id].alive]_vars

\* a tick marked one player dead and sent it a gameOver with its score; the
\* other connection is open and was sent none
C14_Witness ==
  /\ ev = "tick"
  /\ \E id \in clients : \E other \in clients \ {id} :
       /\ ~players[id].alive
       /\ \E i \in GameOversTo(outbox, id) : outbox[i].score = players[id].score
       /\ GameOversTo(outbox, other) = {}

\* the cells of the snake of id
Cells(ps, id) == {ps[id].snake[i] : i \in 1..Len(ps[id].snake)}

\* C15: in a tick, a player D that is dead and stays connected keeps its
\* snake, stays dead, and is shown with that snake and alive = false by every
\* gameUpdate of the tick; and an alive player whose head, after the
\* movement, is on no segment of another alive player and on no later
\* segment of its own snake (it may be on segments of dead snakes) stays
\* alive.
C15_FrozenCorpse ==
  [][TickStep =>
       /\ \A d \in DOMAIN players \ Alive(players) :
            /\ players'[d].snake = players[d].snake
            /\ ~players'[d].alive
            /\ \A i \in GameUpdates(outbox') :
                 /\ d \in DOMAIN outbox'[i].gameState.players
                 /\ outbox'[i].gameState.players[d] =
                      [snake |-> players[d].snake, alive |-> FALSE]
       /\ \A id \in Alive(players) : ~HeadHit(id) => players'[id].alive]_vars

\* after a tick the head of an alive player is on a segment of a dead
\* player's snake, and the gameUpdate shows both
C15_Witness ==
  /\ ev = "tick"
  /\ \E a \in Alive(players) : \E d \in DOMAIN players \ Alive(players) :
       /\ players[a].snake[1] \in Cells(players, d)
       /\ \E i \in GameUpdates(outbox) :
            /\ outbox[i].gameState.players[a].alive
            /\ ~outbox[i].gameState.players[d].alive

\* C16 as claimed: the heading of every player is always one of the four
\* headings, and in every tick the head of every alive player moves to
\* another cell, one step away in its heading.
C16_HeadingValid ==
  /\ [](\A id \in DOMAIN players : players[id].direction \in Headings)
  /\ [][TickStep =>
          \A id \in Alive(players) :
            /\ players'[id].snake[1] # players[id].snake[1]
            /\ players'[id].snake[1] =
                 Shift(players[id].snake[1], players'[id].direction)]_vars

\* C17: the loop of generateFood ends on every world that a connection or a
\* tick leaves (no other handler adds or moves a snake): it returns a cell
\* after at most maxAttempts draws, a cell returned earlier is free, with a
\* player in the world draw number maxAttempts is returned whatever cell it
\* is, occupied or not; these are the results generateFood is taken to have
\* in a tick (attempt counts below maxAttempts taken as 1), and a tick that
\* draws food has an outcome.
C17_GenerateFoodTerminates ==
  ev \in {"connect", "tick"} =>
    LET results == generateFoodLoop(players)
    IN /\ results # {}
       /\ \A g \in results :
            /\ g.attempts \in 1..maxAttempts
            /\ g.attempts < maxAttempts => ~Occupied(players, g.food)
       /\ players # <<>> =>
            \A c \in FoodCells : [food |-> c, attempts |-> maxAttempts] \in results
       /\ generateFood(players) =
            {[food |-> g.food,
              attempts |-> IF g.attempts < maxAttempts THEN 1 ELSE maxAttempts] :
               g \in results}
       /\ gameInterval =>
            updateGame(players, food, foodAttempts, clients, TRUE) # {}

\* a tick drew food while every candidate cell was under a snake: the draw
\* number maxAttempts was returned, on an occupied cell
C17_Witness ==
  /\ ev = "tick"
  /\ foodAttempts = maxAttempts
  /\ \A c \in FoodCells : Occupied(players, c)

\* C18 as claimed: an accepted directionChange replaces the pending heading
\* of its player by its direction; a tick commits, for every alive player,
\* the pending heading, which is the direction of the last accepted message
\* (in particular when that message was handled directly before the tick and
\* its player is the only one), keeps the heading when nothing is pending,
\* and leaves the pending heading of every alive player empty.
C18_LastAcceptedWins ==
  [][/\ \A id \in DOMAIN players : \A m \in Payloads :
          (Message(id, m) /\ ev' = "directionChange")
            => players'[id].pendingDirection = m.direction
     /\ TickStep =>
          \A id \in Alive(players) :
            /\ players[id].pendingDirection # Null
                 => players'[id].direction = players[id].pendingDirection
            /\ (ev = "directionChange" /\ DOMAIN players = {id})
                 => players'[id].direction = players[id].pendingDirection
            /\ (players[id].pendingDirection = Null /\ ev # "directionChange")
                 => players'[id].direction = players[id].direction
            /\ players'[id].pendingDirection = Null]_vars

\* every order in which the players of S can be iterated
Orders(S) ==
  {o \in [1..Cardinality(S) -> S] : \A i, j \in 1..Cardinality(S) : o[i] = o[j] => i = j}

\* C19: on every world that the movement of a tick can leave, the loop of
\* checkCollisions run in any order of the players marks the same players
\* dead, namely those checkCollisions is taken to mark in a tick, and two
\* alive players whose heads are on the same cell are both among them; so a
\* tick marks both dead.
C19_HeadOnBothDie ==
  /\ [](\A st \in MovedBefore(Cardinality(DOMAIN players) + 1) :
          LET ps == st.players
              dead == checkCollisions(st, clients).players
          IN /\ \A o \in Orders(DOMAIN ps) :
                  checkCollisionsLoop(ps, AllSegments(ps), o) = dead
             /\ \A a \in Alive(ps) : \A b \in Alive(ps) \ {a} :
                  ps[a].snake[1] = ps[b].snake[1]
                    => ~dead[a].alive /\ ~dead[b].alive)
  /\ [][TickStep =>
          \A a \in Alive(players) : \A b \in Alive(players) \ {a} :
            players'[a].snake[1] = players'[b].snake[1]
              => ~players'[a].alive /\ ~players'[b].alive]_vars

\* a tick moved the heads of two players onto the same cell and marked both
\* dead: each was sent its gameOver
C19_Witness ==
  /\ ev = "tick"
  /\ \E a \in clients : \E b \in clients \ {a} :
       /\ players[a].snake[1] = players[b].snake[1]
       /\ ~players[a].alive /\ ~players[b].alive
       /\ HasMessage(outbox, "gameOver", a) /\ HasMessage(outbox, "gameOver", b)

\* C20: in the state a tick leaves, the head cell of every alive player holds
\* no segment of another alive player's snake and no later segment of its
\* own snake.
C20_AliveHeadsClear ==
  ev = "tick" =>
    \A id \in Alive(players) :
      /\ \A other \in Alive(players) \ {id} :
           players[id].snake[1] \notin Cells(players, other)
      /\ \A i \in 2..Len(players[id].snake) :
           players[id].snake[i] # players[id].snake[1]

\* the first tick moved two players that had been spawned on the same cell
\* with different headings: both are alive, on different cells
C20_Witness ==
  /\ ev = "tick" /\ ticks = 1
  /\ Alive(players) = {1, 2}
  /\ \E c \in SpawnCells :
       \A id \in {1, 2} :
         /\ players[id].direction \in Headings
         /\ players[id].snake = <<Shift(c, players[id].direction)>>

\* C21: for every connected player, alive or dead, the score is FOOD_SCORE
\* times (length of the snake - 1), the snake has at least one cell and the
\* score is not negative; and no step lowers the score of a player that stays
\* connected.
C21_ScoreIsLength ==
  /\ [](\A id \in DOMAIN players :
          /\ players[id].score = FOOD_SCORE * (Len(players[id].snake) - 1)
          /\ Len(players[id].snake) >= 1
          /\ players[id].score >= 0)
  /\ [][\A id \in DOMAIN players \cap DOMAIN players' :
          players'[id].score >= players[id].score]_vars

\* after a tick one player has eaten (two cells, score FOOD_SCORE) and died,
\* and another has not eaten (one cell, score 0)
C21_Witness ==
  /\ ev = "tick"
  /\ \E a \in DOMAIN players : \E b \in DOMAIN players \ {a} :
       /\ ~players[a].alive
       /\ Len(players[a].snake) = 2 /\ players[a].score = FOOD_SCORE
       /\ Len(players[b].snake) = 1 /\ players[b].score = 0

\* the name "Player n" for n below 10
PlayerN(n) == <<"P", "l", "a", "y", "e", "r", " ", Digits[n + 1]>>

\* the players that carry a default name
DefaultNamed(ps) ==
  {id \in DOMAIN ps : \E n \in 0..9 : ps[id].name = PlayerN(n)}

\* C22 as claimed: no two connected players that carry a default name have
\* the same name.
C22_DefaultNamesDistinct ==
  \A a \in DefaultNamed(players) : \A b \in DefaultNamed(players) \ {a} :
    players[a].name # players[b].name

\* C22 amended: a new player is named "Player N" with N one more than the
\* number of players connected at that moment, and as long as no player has
\* disconnected no two connected players that carry a default name have the
\* same name.
C22_DefaultNames ==
  /\ [][nextId' = nextId + 1 =>
          players'[nextId].name = PlayerN(Cardinality(DOMAIN players) + 1)]_vars
  /\ [](Disconnected = {} =>
          \A a \in DefaultNamed(players) : \A b \in DefaultNamed(players) \ {a} :
            players[a].name # players[b].name)

\* a player connected after another had left, and was given the default name
\* that a player still connected carries
C22_Witness ==
  /\ ev = "connect"
  /\ Disconnected # {}
  /\ \E a \in DefaultNamed(players) : \E b \in DefaultNamed(players) \ {a} :
       players[a].name = players[b].name
====
